---- MODULE Spec2Model ----
(***************************************************************************)
(* Model of src/StrategyTester.py: the NQPatternAnalyzer object, its four  *)
(* methods (fetch_data, analyze_time_window, plot_analysis,               *)
(* print_statistics) and the values they compute.                          *)
(*                                                                         *)
(* A DataFrame is a sequence of rows in index order.  A float is a record  *)
(* [nan, num, den]: NaN, or the exact fraction num/den in lowest terms.    *)
(* The closes used are far from the -0.5 threshold, so exact fractions     *)
(* order the same way as the doubles pandas computes.  The Open and Volume *)
(* columns are never read by the code and are left out of a bar.           *)
(* A time of day is its number of minutes since midnight.                  *)
(***************************************************************************)
EXTENDS Integers, Sequences, FiniteSets

VARIABLES data, patterns, call, result, stats, origin, pc

vars == <<data, patterns, call, result, stats, origin, pc>>

-----------------------------------------------------------------------------
(* Bounds and input domains *)

\* longest series the provider returns in the one-pass pipeline
MaxBars == 4
\* longest series the provider returns when methods are called in any order
MaxFeedBars == 3

Dates == {1, 2}
\* 09:00, 09:40, 09:50
TimeSeq == <<540, 580, 590>>
Times == {TimeSeq[i] : i \in 1..Len(TimeSeq)}
NumSlots == Cardinality(Dates) * Len(TimeSeq)

Closes == {990, 997, 1000}
\* High - Close and Close - Low
Spreads == {5}
FeedCloses == {990, 1000}

-----------------------------------------------------------------------------
(* Optional values (None) and floats *)

None == <<>>
Some(x) == <<x>>

Abs(n) == IF n < 0 THEN -n ELSE n

RECURSIVE GCD(_, _)
GCD(a, b) == IF b = 0 THEN a ELSE GCD(b, a % b)

NaN == [nan |-> TRUE, num |-> 0, den |-> 1]

\* the float n/d, d > 0
Frac(n, d) ==
    LET g == GCD(Abs(n), d)
    IN  [nan |-> FALSE, num |-> n \div g, den |-> d \div g]

\* x < y and x > y on floats: any comparison with NaN is False
Lt(x, y) == ~x.nan /\ ~y.nan /\ x.num * y.den < y.num * x.den
Gt(x, y) == Lt(y, x)

Add(x, y) ==
    IF x.nan \/ y.nan THEN NaN
    ELSE Frac(x.num * y.den + y.num * x.den, x.den * y.den)

RECURSIVE SumSeq(_)
SumSeq(s) == IF s = <<>> THEN 0 ELSE Head(s) + SumSeq(Tail(s))

RECURSIVE SumFloats(_)
SumFloats(s) == IF s = <<>> THEN Frac(0, 1) ELSE Add(Head(s), SumFloats(Tail(s)))

\* Series.mean() of a 0/1 column, times 100: NaN on an empty column
MeanPct(col) ==
    IF col = <<>> THEN NaN ELSE Frac(100 * SumSeq(col), Len(col))

\* Series.mean() of a float column without NaN: NaN on an empty column
MeanFloats(col) ==
    IF col = <<>> THEN NaN
    ELSE LET t == SumFloats(col) IN Frac(t.num, t.den * Len(col))

-----------------------------------------------------------------------------
(* The series a provider can return *)

SlotDate(k) == ((k - 1) \div Len(TimeSeq)) + 1
SlotTime(k) == TimeSeq[((k - 1) % Len(TimeSeq)) + 1]

Bar(k, c, sp) ==
    [date |-> SlotDate(k), time |-> SlotTime(k),
     High |-> c + sp, Low |-> c - sp, Close |-> c]

\* consecutive bars of the sampling grid, at most maxLen of them, the first
\* one at a slot of firsts
SeriesOf(maxLen, closes, spreads, firsts) ==
    UNION { UNION { { [i \in 1..len |-> Bar(first + i - 1, f[i][1], f[i][2])] :
                        f \in [1..len -> closes \X spreads] } :
                    first \in {k \in firsts : k + len - 1 <= NumSlots} } :
            len \in 0..maxLen }

\* the first slot of each date
DayStarts == {k \in 1..NumSlots : SlotTime(k) = TimeSeq[1]}

\* the series of the one-pass pipeline start anywhere in a day
Series == SeriesOf(MaxBars, Closes, Spreads, 1..NumSlots)
\* the series of the any-order calls start with a day
Feed == SeriesOf(MaxFeedBars, FeedCloses, Spreads, DayStarts)

-----------------------------------------------------------------------------
(* analyze_time_window: the window table *)

\* -0.5, the literal of line 62
Threshold == Frac(-1, 2)

\* one element of the mask of lines 41-42, with the end bound left out
InWindowExclusive(t, start_time, end_time) == t >= start_time /\ t < end_time

\* one element of the mask of lines 41-42
InWindow(t, start_time, end_time) == t >= start_time /\ t <= end_time

\* self.data[mask]: the rows whose time of day is in the window, in index order
Mask(bars, start_time, end_time) ==
    SelectSeq(bars, LAMBDA b : InWindow(b.time, start_time, end_time))

Max(S) == CHOOSE x \in S : \A y \in S : y <= x
Min(S) == CHOOSE x \in S : \A y \in S : x <= y

\* 09:00, the literal of line 52
MorningCutoff == TimeSeq[1]

get_morning_range(bars, date) ==
    LET morning_data == SelectSeq(bars,
            LAMBDA b : b.date = date /\ b.time <= MorningCutoff)
        idx == 1..Len(morning_data)
    IN  IF Len(morning_data) = 0 THEN 0
        ELSE Max({morning_data[i].High : i \in idx})
               - Min({morning_data[i].Low : i \in idx})

\* window_data['Close'].shift(1), row i
PrevClose(w, i) == IF i = 1 THEN NaN ELSE Frac(w[i - 1].Close, 1)

\* window_data['Close'].shift(-1), row i
NextClose(w, i) == IF i = Len(w) THEN NaN ELSE Frac(w[i + 1].Close, 1)

\* line 47, row i
Return(w, i) ==
    LET p == PrevClose(w, i)
    IN  IF p.nan THEN NaN
        ELSE Frac((w[i].Close * p.den - p.num) * 100, p.num)

\* lines 61-65, row i
Reversal(w, i) ==
    IF Lt(Return(w, i), Threshold) /\ Gt(NextClose(w, i), Frac(w[i].Close, 1))
    THEN 1 ELSE 0

\* The table of lines 43-65.  range_stddev is rolling(20).std(): NaN in each of
\* the first 19 rows, and no table of the model has more rows than that.
WindowTable(bars, start_time, end_time) ==
    LET w == Mask(bars, start_time, end_time)
    IN  [i \in 1..Len(w) |->
            [date |-> w[i].date, time |-> w[i].time,
             High |-> w[i].High, Low |-> w[i].Low, Close |-> w[i].Close,
             prev_close |-> PrevClose(w, i),
             return |-> Return(w, i),
             morning_range |-> get_morning_range(bars, w[i].date),
             range_stddev |-> NaN,
             reversal |-> Reversal(w, i)]]

-----------------------------------------------------------------------------
(* print_statistics: the stats dictionary *)

Column(rows, name) == [i \in 1..Len(rows) |-> rows[i][name]]

\* self.patterns['return'].shift(-1) > 0, row i
NextReturnPositive(rows, i) ==
    i < Len(rows) /\ Gt(rows[i + 1].return, Frac(0, 1))

\* line 117 with sum() in place of mean()
ReversalRateSum(rows) == Frac(100 * SumSeq(Column(rows, "reversal")), 1)

\* line 117
ReversalRate(rows) == MeanPct(Column(rows, "reversal"))

\* line 118
AverageReturn(rows) ==
    MeanFloats(Column(SelectSeq(rows, LAMBDA r : r.reversal = 1), "return"))

\* lines 119-120
SuccessRate(rows) ==
    MeanPct([i \in 1..Len(rows) |->
                IF rows[i].reversal = 1 /\ NextReturnPositive(rows, i)
                THEN 1 ELSE 0])

Statistics(rows) ==
    [Total_Reversals |-> SumSeq(Column(rows, "reversal")),
     Reversal_Rate |-> ReversalRate(rows),
     Average_Return |-> AverageReturn(rows),
     Success_Rate |-> SuccessRate(rows)]

-----------------------------------------------------------------------------
(* The object and its methods *)

OK == "ok"
FetchFirst == "ValueError: Please fetch data first"
AnalysisFirst == "ValueError: Please run analysis first"
DataError == "DataError: No numeric types to aggregate"

Call(op, start_time, end_time) ==
    [op |-> op, start_time |-> start_time, end_time |-> end_time]

\* Where self.patterns comes from: the window of the analyze_time_window call
\* that assigned it, whether self.data is still the series it was computed
\* from, and whether that call repeated the one before it (runs = 2).
Origin(start_time, end_time) ==
    [start_time |-> start_time, end_time |-> end_time, current |-> TRUE,
     runs |-> IF /\ origin # None
                 /\ origin[1].current
                 /\ origin[1].start_time = start_time
                 /\ origin[1].end_time = end_time
              THEN 2 ELSE 1]

\* __init__
Construct ==
    /\ data = None
    /\ patterns = None
    /\ call = Call("__init__", 0, 0)
    /\ result = OK
    /\ stats = None
    /\ origin = None

\* fetch_data that also forgets the previous analysis
FetchDataResetting(s) ==
    /\ data' = Some(s)
    /\ patterns' = None
    /\ origin' = None
    /\ call' = Call("fetch_data", 0, 0)
    /\ result' = OK
    /\ stats' = None

\* fetch_data, the provider returning the series s
FetchData(s) ==
    /\ data' = Some(s)
    /\ origin' = IF origin = None THEN None
                 ELSE Some([origin[1] EXCEPT !.current = FALSE])
    /\ call' = Call("fetch_data", 0, 0)
    /\ result' = OK
    /\ stats' = None
    /\ UNCHANGED patterns

\* analyze_time_window that filters self.data itself instead of a copy
AnalyzeTimeWindowInPlace(start_time, end_time) ==
    /\ call' = Call("analyze_time_window", start_time, end_time)
    /\ stats' = None
    /\ IF data = None
       THEN /\ result' = FetchFirst
            /\ UNCHANGED <<data, patterns, origin>>
       ELSE LET window_data == WindowTable(data[1], start_time, end_time)
            IN  \/ /\ window_data = <<>>
                   /\ result' = DataError
                   /\ data' = Some(Mask(data[1], start_time, end_time))
                   /\ UNCHANGED <<patterns, origin>>
                \/ /\ result' = OK
                   /\ data' = Some(Mask(data[1], start_time, end_time))
                   /\ patterns' = Some(window_data)
                   /\ origin' = Some(Origin(start_time, end_time))

\* analyze_time_window.  On an empty window the mapped morning_range column
\* has no numeric dtype and rolling(20).std() of line 58 may raise, depending
\* on the pandas build; both outcomes are kept.
AnalyzeTimeWindow(start_time, end_time) ==
    /\ call' = Call("analyze_time_window", start_time, end_time)
    /\ stats' = None
    /\ UNCHANGED data
    /\ IF data = None
       THEN /\ result' = FetchFirst
            /\ UNCHANGED <<patterns, origin>>
       ELSE LET window_data == WindowTable(data[1], start_time, end_time)
            IN  \/ /\ window_data = <<>>
                   /\ result' = DataError
                   /\ UNCHANGED <<patterns, origin>>
                \/ /\ result' = OK
                   /\ patterns' = Some(window_data)
                   /\ origin' = Some(Origin(start_time, end_time))

\* plot_analysis: the figure is built from self.patterns and returned
PlotAnalysis ==
    /\ call' = Call("plot_analysis", 0, 0)
    /\ stats' = None
    /\ result' = IF patterns = None THEN AnalysisFirst ELSE OK
    /\ UNCHANGED <<data, patterns, origin>>

\* print_statistics without the check of lines 112-113
PrintStatisticsUnguarded ==
    /\ call' = Call("print_statistics", 0, 0)
    /\ result' = OK
    /\ stats' = Some(Statistics(IF patterns = None THEN <<>> ELSE patterns[1]))
    /\ UNCHANGED <<data, patterns, origin>>

\* print_statistics
PrintStatistics ==
    /\ call' = Call("print_statistics", 0, 0)
    /\ IF patterns = None
       THEN /\ result' = AnalysisFirst
            /\ stats' = None
       ELSE /\ result' = OK
            /\ stats' = Some(Statistics(patterns[1]))
    /\ UNCHANGED <<data, patterns, origin>>

-----------------------------------------------------------------------------
(* Spec: one analyzer, its methods called in any order *)

Init == Construct /\ pc = "any"

CallFetch == \E s \in Feed : FetchData(s) /\ UNCHANGED pc
CallAnalyze == \E st \in Times, en \in Times : AnalyzeTimeWindow(st, en) /\ UNCHANGED pc
CallPlot == PlotAnalysis /\ UNCHANGED pc
CallPrint == PrintStatistics /\ UNCHANGED pc

Next == CallFetch \/ CallAnalyze \/ CallPlot \/ CallPrint

Spec == Init /\ [][Next]_vars

-----------------------------------------------------------------------------
(* SpecPipeline: the run of lines 125-129, for any window; a raise ends it *)

AfterCall(next) == pc' = IF result' = OK THEN next ELSE "done"

InitPipeline == Construct /\ pc = "fetch_data"

RunFetch ==
    /\ pc = "fetch_data"
    /\ \E s \in Series : FetchData(s)
    /\ AfterCall("analyze_time_window")

RunAnalyze ==
    /\ pc = "analyze_time_window"
    /\ \E st \in Times, en \in Times : AnalyzeTimeWindow(st, en)
    /\ AfterCall("print_statistics")

RunPrint ==
    /\ pc = "print_statistics"
    /\ PrintStatistics
    /\ AfterCall("plot_analysis")

RunPlot ==
    /\ pc = "plot_analysis"
    /\ PlotAnalysis
    /\ AfterCall("done")

NextPipeline == RunFetch \/ RunAnalyze \/ RunPrint \/ RunPlot

SpecPipeline == InitPipeline /\ [][NextPipeline]_vars

-----------------------------------------------------------------------------
(* Vocabulary of the properties *)

Analysed == patterns # None /\ origin # None /\ origin[1].current
Rows == patterns[1]
Bars == data[1]
Returned == stats[1]

\* position in the full series of the bar a row of the table annotates
FullIndex(row) ==
    CHOOSE k \in 1..Len(Bars) :
        Bars[k].date = row.date /\ Bars[k].time = row.time

Flagged(rows) == {i \in 1..Len(rows) : rows[i].reversal = 1}

InRange(x) == ~x.nan /\ 0 <= x.num /\ x.num <= 100 * x.den
IsZero(x) == ~x.nan /\ x.num = 0

NoBarIn(start_time, end_time) ==
    \A k \in 1..Len(Bars) :
        ~(start_time <= Bars[k].time /\ Bars[k].time <= end_time)

-----------------------------------------------------------------------------
(* Properties of the window table (SpecPipeline) *)

\* C1: in the table of analyze_time_window a bar is flagged as a reversal
\* exactly when its return_pct is below -0.5 and the next bar of the full
\* series closes strictly higher; the last bar of the full series is not
\* flagged.
C1_ReversalUsesFullSeries ==
    Analysed =>
        \A i \in 1..Len(Rows) :
            LET k == FullIndex(Rows[i])
            IN  Rows[i].reversal = 1 <=>
                    /\ Lt(Rows[i].return, Threshold)
                    /\ k < Len(Bars)
                    /\ Bars[k + 1].Close > Rows[i].Close

\* C2: in the table of analyze_time_window prev_close is the close of the
\* preceding bar of the full series and return_pct is the percentage change
\* from it; both are undefined only for the first bar of the full series.
C2_PrevCloseUsesFullSeries ==
    Analysed =>
        \A i \in 1..Len(Rows) :
            LET k == FullIndex(Rows[i])
            IN  IF k = 1
                THEN Rows[i].prev_close.nan /\ Rows[i].return.nan
                ELSE /\ Rows[i].prev_close = Frac(Bars[k - 1].Close, 1)
                     /\ Rows[i].return =
                            Frac((Rows[i].Close - Bars[k - 1].Close) * 100,
                                 Bars[k - 1].Close)

\* C3: for start <= end the table of analyze_time_window holds exactly the
\* bars of the series whose time of day t has start <= t <= end, each once
\* and in the order of the series.
C3_WindowIsInclusiveFilter ==
    (Analysed /\ origin[1].start_time <= origin[1].end_time) =>
        LET st == origin[1].start_time
            en == origin[1].end_time
            inside == {k \in 1..Len(Bars) : st <= Bars[k].time /\ Bars[k].time <= en}
        IN  /\ Len(Rows) = Cardinality(inside)
            /\ \A i \in 1..Len(Rows) :
                   /\ \E k \in inside :
                          /\ Bars[k].date = Rows[i].date
                          /\ Bars[k].time = Rows[i].time
                          /\ Bars[k].Close = Rows[i].Close
                   /\ st <= Rows[i].time /\ Rows[i].time <= en
            /\ \A k \in inside : \E i \in 1..Len(Rows) : FullIndex(Rows[i]) = k
            /\ \A i, j \in 1..Len(Rows) :
                   i < j => FullIndex(Rows[i]) < FullIndex(Rows[j])

\* C3 witness: a window with start = end selected some bars of a series and
\* left others out, one of them a bar just below the window.
C3_Witness ==
    /\ Analysed
    /\ origin[1].start_time = origin[1].end_time
    /\ Len(Rows) >= 2
    /\ Len(Rows) < Len(Bars)
    /\ \A i \in 1..Len(Rows) : Rows[i].time = origin[1].end_time

-----------------------------------------------------------------------------
(* Properties of the statistics (SpecPipeline) *)

\* C5: with a non-empty series and no bar in the window, analyze_time_window
\* and print_statistics do not raise, and the statistics have
\* Total_Reversals = 0 and Reversal_Rate = 0.
C5_EmptyWindowGivesZeroStats ==
    LET analysing == call.op = "analyze_time_window"
                        /\ NoBarIn(call.start_time, call.end_time)
        printing == call.op = "print_statistics" /\ Analysed /\ Rows = <<>>
    IN  (data # None /\ Bars # <<>> /\ (analysing \/ printing)) =>
            /\ result = OK
            /\ printing =>
                   /\ Returned.Total_Reversals = 0
                   /\ Returned.Reversal_Rate = Frac(0, 1)

C7_SuccessRateOverFlagged ==
    (call.op = "print_statistics" /\ result = OK /\ Flagged(Rows) # {}) =>
        LET won == {i \in Flagged(Rows) :
                       i < Len(Rows) /\ Gt(Rows[i + 1].return, Frac(0, 1))}
        IN  Returned.Success_Rate =
                Frac(100 * Cardinality(won), Cardinality(Flagged(Rows)))

-----------------------------------------------------------------------------
(* Properties of the call order (Spec) *)

\* C4: analyze_time_window fails with the missing-data error whenever the
\* stored series is absent or has no bars, and then leaves self.patterns as
\* it was.
C4_EmptySeriesIsMissingData ==
    [][(call'.op = "analyze_time_window" /\ (data = None \/ data = Some(<<>>))) =>
            /\ result' = FetchFirst
            /\ patterns' = patterns]_vars

\* C8: a stage never runs without its predecessor: analyze_time_window raises
\* "fetch data first" unless fetch_data has stored a series, print_statistics
\* and plot_analysis raise "run analysis first" unless analyze_time_window
\* has succeeded, and a call that raises so changes neither self.data nor
\* self.patterns and returns no statistics.
C8_StagesNeedPredecessor ==
    [][/\ (data = None /\ data' # None) => call'.op = "fetch_data"
       /\ (patterns = None /\ patterns' # None) =>
              call'.op = "analyze_time_window" /\ result' = OK
       /\ call'.op = "analyze_time_window" =>
              IF data = None
              THEN /\ result' = FetchFirst
                   /\ UNCHANGED <<data, patterns>>
                   /\ stats' = None
              ELSE result' # FetchFirst
       /\ call'.op \in {"print_statistics", "plot_analysis"} =>
              IF patterns = None
              THEN /\ result' = AnalysisFirst
                   /\ UNCHANGED <<data, patterns>>
                   /\ stats' = None
              ELSE result' = OK]_vars

\* C8 witness: print_statistics was called after a fetch and before any
\* analysis, and raised
C8_Witness ==
    /\ call.op = "print_statistics"
    /\ result = AnalysisFirst
    /\ data # None /\ Bars # <<>>
    /\ patterns = None
    /\ stats = None

\* C9: analyze_time_window, print_statistics and plot_analysis leave the
\* stored series as it is, so analysing the same series again with the same
\* window gives the same table and print_statistics the same statistics.
C9_RepeatedRunIsIdentical ==
    [][/\ call'.op \in {"analyze_time_window", "print_statistics",
                        "plot_analysis"} => data' = data
       /\ (call'.op = "analyze_time_window" /\ result' = OK
             /\ origin'[1].runs = 2) =>
              /\ patterns' = patterns
              /\ Statistics(patterns'[1]) = Statistics(patterns[1])
       /\ (call'.op = "print_statistics" /\ result' = OK) =>
              /\ patterns' = patterns
              /\ stats' = Some(Statistics(patterns[1]))
       /\ (call'.op = "print_statistics" /\ result' = OK /\ stats # None
             /\ call.op = "print_statistics") => stats' = stats]_vars

\* C9 witness: the statistics of a second run of the same window on the same
\* series, whose table has a flagged bar
C9_Witness ==
    /\ call.op = "print_statistics"
    /\ result = OK
    /\ Analysed
    /\ origin[1].runs = 2
    /\ Flagged(Rows) # {}
    /\ Returned.Total_Reversals = 1

\* C10: fetch_data stores the series it is given and leaves self.patterns
\* alone; only a successful analyze_time_window changes self.patterns; after
\* a later fetch print_statistics and plot_analysis still succeed and report
\* the table of the earlier series; self.patterns is set only if self.data is.
C10_FetchLeavesPatterns ==
    [][/\ call'.op = "fetch_data" =>
              /\ patterns' = patterns
              /\ data' # None /\ data'[1] \in Feed
       /\ patterns' # patterns =>
              call'.op = "analyze_time_window" /\ result' = OK
       /\ (patterns # None /\ call'.op = "print_statistics") =>
              result' = OK /\ stats' = Some(Statistics(patterns[1]))
       /\ (patterns # None /\ call'.op = "plot_analysis") => result' = OK
       /\ patterns' # None => data' # None]_vars

\* C10 witness: statistics reported after a second fetch replaced the series
\* by one that no window maps to the table still stored
C10_Witness ==
    /\ call.op = "print_statistics"
    /\ result = OK
    /\ origin # None /\ ~origin[1].current
    /\ Flagged(Rows) # {}
    /\ \A st \in Times, en \in Times : WindowTable(Bars, st, en) # Rows
    /\ Returned = Statistics(Rows)

====
